---- MODULE Spec2Model ----
(***************************************************************************)
(* Milestone dependency and progress engine of the learning-goal tracker.  *)
(*                                                                         *)
(* Two implementations of the engine exist in the repository and both are  *)
(* modelled:                                                               *)
(*   - the Express/Mongoose backend (models/Goal.js, routes/goals.js),     *)
(*     whose goals live in MongoDB;                                        *)
(*   - the goal-details page of the Next.js client, whose goals live in    *)
(*     the browser's localStorage.                                         *)
(* The model follows one goal from its creation.  A goal is created either *)
(* by POST /api/goals (MongoDB) or by the new-goal page (localStorage);    *)
(* the two stores never hold the same goal, so once the goal exists in one *)
(* store only that implementation acts on it.                              *)
(***************************************************************************)
EXTENDS Integers, Sequences, FiniteSets, TLC

VARIABLES
  goal,          \* the Goal document in MongoDB
  ledger,        \* entries of the goal's Progress document (progress ledger)
  nextId,        \* next fresh ObjectId for a milestone subdocument
  clock,         \* number of timestamps handed out so far by new Date()
  result,        \* outcome of the last operation handled
  reqs,          \* completion requests in flight (interleaved handling)
  stored,        \* the "goals" array in the browser's localStorage
  page           \* React state of the goal-details page

vars == <<goal, ledger, nextId, clock, result, reqs, stored, page>>

----------------------------------------------------------------------------
(* Bounds of the model *)

\* most milestones one goal holds
MaxMilestones == 3
\* most milestone ids the store hands out over the life of the goal
MaxIds == 3
\* longest dependency list a request body carries
MaxCandidates == 1
\* most goals the browser's localStorage holds
MaxGoals == 2
\* longest dependency list the goal-details page builds
MaxDeps == 1
\* most completion requests in flight at once
MaxRequests == 2
\* most milestones of a goal whose progress is recomputed on its own
MaxTotal == 40
\* most milestones of a goal found in localStorage
MaxStored == 2
\* most milestones of a large goal on the server
LargeTotal == 400
\* most milestones of a large goal left incomplete next to one another
MaxOpen == 3
\* weeks of the timeline of the client's large goal
ClientWeeks == 80
\* milestones of the client's large goal that are completed at the start
ClientDone == 22
\* most milestones of a goal whose requests are scheduled fairly
FairMilestones == 2

----------------------------------------------------------------------------
(* IEEE-754 double arithmetic of  Math.round((k / t) * 100)                *)
(* A double's 53-bit significand is kept as a top part of TopBits bits and *)
(* LimbCount limbs of LimbBits bits; e is the number of fraction bits.     *)

TopBits == 3
LimbBits == 10
LimbCount == 5

RECURSIVE Pow2(_)
Pow2(n) == IF n = 0 THEN 1 ELSE 2 * Pow2(n - 1)

LimbBase == Pow2(LimbBits)

RECURSIVE BitLength(_)
BitLength(n) == IF n = 0 THEN 0 ELSE 1 + BitLength(n \div 2)

\* zero bits between the binary point and the first 1 bit of r / t, 0 < r < t
RECURSIVE LeadingZeros(_, _)
LeadingZeros(r, t) == IF 2 * r >= t THEN 0 ELSE 1 + LeadingZeros(2 * r, t)

\* the next n limbs of the binary expansion of r / t, and the remainder left
RECURSIVE DivLimbs(_, _, _)
DivLimbs(r, t, n) ==
  IF n = 0 THEN [limbs |-> <<>>, rem |-> r]
  ELSE LET rest == DivLimbs((r * LimbBase) % t, t, n - 1)
       IN [limbs |-> <<(r * LimbBase) \div t>> \o rest.limbs, rem |-> rest.rem]

\* limbs * f + c, lowest limb last
RECURSIVE MulAddLimbs(_, _, _)
MulAddLimbs(limbs, f, c) ==
  IF limbs = <<>> THEN [limbs |-> <<>>, carry |-> c]
  ELSE LET v == limbs[Len(limbs)] * f + c
           rest == MulAddLimbs(SubSeq(limbs, 1, Len(limbs) - 1), f, v \div LimbBase)
       IN [limbs |-> rest.limbs \o <<v % LimbBase>>, carry |-> rest.carry]

\* round to nearest, ties to even
RoundsUp(lsb, guard, sticky) == guard = 1 /\ (sticky \/ lsb = 1)

\* the double nearest to k / t, for integers 0 < k < t
FloatDiv(k, t) ==
  LET z == LeadingZeros(k, t)
      n0 == k * Pow2(z + TopBits)
      q == DivLimbs(n0 % t, t, LimbCount)
      guard == IF 2 * q.rem >= t THEN 1 ELSE 0
      sticky == (2 * q.rem - guard * t) # 0
      up == IF RoundsUp(q.limbs[LimbCount] % 2, guard, sticky) THEN 1 ELSE 0
      m == MulAddLimbs(q.limbs, 1, up)
  IN [top |-> (n0 \div t) + m.carry, low |-> m.limbs,
      e |-> z + TopBits + LimbBits * LimbCount]

\* the double nearest to x * f, for a double x and a small integer f
FloatMul(x, f) ==
  LET p == MulAddLimbs(x.low, f, 0)
      top == x.top * f + p.carry
      d == BitLength(top) - TopBits
      last == p.limbs[LimbCount]
      guard == (last \div Pow2(d - 1)) % 2
      sticky == (last % Pow2(d - 1)) # 0
      lsb == (last \div Pow2(d)) % 2
      cut == SubSeq(p.limbs, 1, LimbCount - 1) \o <<last - (last % Pow2(d))>>
      m == MulAddLimbs(cut, 1, IF RoundsUp(lsb, guard, sticky) THEN Pow2(d) ELSE 0)
  IN [top |-> top + m.carry, low |-> m.limbs, e |-> x.e]

\* Math.round(x): the nearest integer, a tie going up
MathRound(x) ==
  LET intBits == x.e - LimbBits * LimbCount
  IN (x.top \div Pow2(intBits)) + ((x.top \div Pow2(intBits - 1)) % 2)

\* Math.round((k / t) * 100) for 0 <= k <= t, t >= 1
RoundPercent(k, t) ==
  IF k = 0 THEN 0
  ELSE IF k = t THEN 100
  ELSE MathRound(FloatMul(FloatDiv(k, t), 100))

----------------------------------------------------------------------------
(* Data model: models/Goal.js *)

Statuses == {"planning", "active", "paused", "completed", "cancelled"}

\* a Date field that was never set
NoDate == 0

\* a well-formed ObjectId that names no milestone of the goal
Ghost == MaxIds + 1

\* the ids a request can name: those of the goal's milestones, which the
\* server has sent to the client, and one that names none
RequestIds(g) == {g.milestones[i].id : i \in DOMAIN g.milestones} \cup {Ghost}

\* a milestone subdocument with the schema defaults
NewMilestone(id, order, deps) ==
  [id |-> id, order |-> order, isCompleted |-> FALSE, completedAt |-> NoDate,
   dependencies |-> deps]

\* no Goal document
NoGoal ==
  [exists |-> FALSE, status |-> "planning", progress |-> 0, completedMilestones |-> 0,
   completedAt |-> NoDate, milestones |-> <<>>]

\* new Goal(goalData): schema defaults overridden by what the request body carries
NewGoal(body) ==
  [exists |-> TRUE, status |-> body.status, progress |-> body.progress,
   completedMilestones |-> 0, completedAt |-> NoDate, milestones |-> <<>>]

\* goal.milestones.id(id): position of the subdocument, 0 when there is none
IndexOf(ms, id) ==
  IF \E i \in DOMAIN ms : ms[i].id = id
  THEN CHOOSE i \in DOMAIN ms : ms[i].id = id /\ \A j \in DOMAIN ms : ms[j].id = id => i <= j
  ELSE 0

\* this.milestones.filter(milestone => milestone.isCompleted).length
CompletedCount(ms) == Cardinality({i \in DOMAIN ms : ms[i].isCompleted})

\* the virtual completionPercentage.  A counter above the number of
\* milestones is split into whole multiples of that number, whose quotient
\* is an exact double, and a remainder rounded as above (the quotients the
\* model reaches above 1, 2/1, 3/1 and 3/2, are exact doubles as well).
completionPercentage(g) ==
  LET n == Len(g.milestones)
      c == g.completedMilestones
  IN IF n = 0 THEN 0
     ELSE IF c <= n THEN RoundPercent(c, n)
     ELSE 100 * (c \div n) + RoundPercent(c % n, n)

\* updateProgress stamping the completion time whenever the progress is 100
updateProgressAlwaysStamps(g, now) ==
  LET completed == CompletedCount(g.milestones)
      progress == IF Len(g.milestones) > 0
                  THEN RoundPercent(completed, Len(g.milestones)) ELSE 0
  IN IF progress = 100
     THEN [g EXCEPT !.completedMilestones = completed, !.progress = progress,
                    !.status = "completed", !.completedAt = now]
     ELSE IF progress > 0 /\ g.status = "planning"
     THEN [g EXCEPT !.completedMilestones = completed, !.progress = progress,
                    !.status = "active"]
     ELSE [g EXCEPT !.completedMilestones = completed, !.progress = progress]

\* updateProgress deriving the status from the progress in both directions
updateProgressSymmetric(g, now) ==
  LET completed == CompletedCount(g.milestones)
      progress == IF Len(g.milestones) > 0
                  THEN RoundPercent(completed, Len(g.milestones)) ELSE 0
  IN IF progress = 100 /\ g.status # "completed"
     THEN [g EXCEPT !.completedMilestones = completed, !.progress = progress,
                    !.status = "completed", !.completedAt = now]
     ELSE IF progress > 0 /\ g.status \in {"planning", "completed"} /\ progress < 100
     THEN [g EXCEPT !.completedMilestones = completed, !.progress = progress,
                    !.status = "active"]
     ELSE [g EXCEPT !.completedMilestones = completed, !.progress = progress]

\* updateProgress promoting every goal that has started, not only a planned one
updateProgressActivatesAny(g, now) ==
  LET completed == CompletedCount(g.milestones)
      progress == IF Len(g.milestones) > 0
                  THEN RoundPercent(completed, Len(g.milestones)) ELSE 0
  IN IF progress = 100 /\ g.status # "completed"
     THEN [g EXCEPT !.completedMilestones = completed, !.progress = progress,
                    !.status = "completed", !.completedAt = now]
     ELSE IF progress > 0 /\ g.status # "completed"
     THEN [g EXCEPT !.completedMilestones = completed, !.progress = progress,
                    !.status = "active"]
     ELSE [g EXCEPT !.completedMilestones = completed, !.progress = progress]

\* goalSchema.methods.updateProgress, up to its save()
updateProgress(g, now) ==
  LET completed == CompletedCount(g.milestones)
      progress == IF Len(g.milestones) > 0
                  THEN RoundPercent(completed, Len(g.milestones)) ELSE 0
  IN IF progress = 100 /\ g.status # "completed"
     THEN [g EXCEPT !.completedMilestones = completed, !.progress = progress,
                    !.status = "completed", !.completedAt = now]
     ELSE IF progress > 0 /\ g.status = "planning"
     THEN [g EXCEPT !.completedMilestones = completed, !.progress = progress,
                    !.status = "active"]
     ELSE [g EXCEPT !.completedMilestones = completed, !.progress = progress]

\* goalSchema.methods.addMilestone, up to its save()
addMilestone(g, id, deps) ==
  [g EXCEPT !.milestones = Append(@, NewMilestone(id, Len(g.milestones), deps))]

\* goalSchema.methods.completeMilestone, up to its save(); thrown when the
\* milestone is not found
completeMilestone(g, mid, now) ==
  LET i == IndexOf(g.milestones, mid)
  IN IF i # 0
     THEN [thrown |-> FALSE,
           goal |-> updateProgress(
             [g EXCEPT !.milestones[i].isCompleted = TRUE,
                       !.milestones[i].completedAt = now], now)]
     ELSE [thrown |-> TRUE, goal |-> g]

\* addEntry pushing the entry a second time
addEntryTwice(entries, mid) ==
  entries \o << [type |-> "milestone", value |-> 1, unit |-> "count", milestoneId |-> mid],
               [type |-> "milestone", value |-> 1, unit |-> "count", milestoneId |-> mid] >>

\* progressSchema.methods.addEntry for a milestone entry
addEntry(entries, mid) ==
  Append(entries, [type |-> "milestone", value |-> 1, unit |-> "count", milestoneId |-> mid])

----------------------------------------------------------------------------
(* Request handlers: routes/goals.js.  Each handler is one atomic step.    *)

\* what a handler answers.  unmet: the unmet dependencies a refused completion
\* lists; body: the dependency list of an accepted dependencies request;
\* posted: the client submitted a progress entry to the API
Response(op, mid, code) ==
  [op |-> op, mid |-> mid, code |-> code, unmet |-> <<>>, body |-> <<>>, posted |-> FALSE]

NoResponse == Response("none", Ghost, "none")

\* the request bodies of POST /api/goals the model sends: the schema paths
\* status and progress are absent (the defaults apply) or present
GoalBodies ==
  {[status |-> "planning", progress |-> 0], [status |-> "paused", progress |-> 50]}

\* an id as a request spells it: 24 hex digits, in lower case (as the server
\* prints it) or in upper case
Spellings(g) == [id : RequestIds(g), upper : BOOLEAN]

RECURSIVE SeqsUpTo(_, _)
SeqsUpTo(S, n) ==
  IF n = 0 THEN {<<>>}
  ELSE SeqsUpTo(S, n - 1) \cup {Append(q, x) : q \in {r \in SeqsUpTo(S, n - 1) : Len(r) = n - 1}, x \in S}

\* the dependency lists a request body carries
CandidateLists(g) == SeqsUpTo(Spellings(g), MaxCandidates)

\* the check reading a field the milestone does not have
alreadyCompletedWrongField(milestone) == FALSE

\* the completion route's check that the milestone is already completed
alreadyCompleted(milestone) == milestone.isCompleted

\* the dependency check with only the test for a missing dependency
RECURSIVE unmetDependenciesMissingOnly(_, _)
unmetDependenciesMissingOnly(ms, deps) ==
  IF deps = <<>> THEN <<>>
  ELSE LET rest == unmetDependenciesMissingOnly(ms, Tail(deps))
       IN IF IndexOf(ms, Head(deps)) = 0 THEN <<Head(deps)>> \o rest ELSE rest

\* the dependency check reporting, with every unmet dependency, the unmet
\* dependencies of that dependency as well
RECURSIVE unmetDependenciesWithAncestors(_, _)
unmetDependenciesWithAncestors(ms, deps) ==
  IF deps = <<>> THEN <<>>
  ELSE LET i == IndexOf(ms, Head(deps))
           rest == unmetDependenciesWithAncestors(ms, Tail(deps))
           Unmet(d) == IndexOf(ms, d) = 0 \/ ~ms[IndexOf(ms, d)].isCompleted
       IN IF i = 0 THEN <<Head(deps)>> \o rest
          ELSE IF ~ms[i].isCompleted
          THEN <<Head(deps)>> \o SelectSeq(ms[i].dependencies, Unmet) \o rest
          ELSE rest

\* the dependency check finding every dependency met
unmetDependenciesNone(ms, deps) == <<>>

\* dependency check of the completion route: the dependencies that are
\* missing from the goal or not completed
RECURSIVE unmetDependencies(_, _)
unmetDependencies(ms, deps) ==
  IF deps = <<>> THEN <<>>
  ELSE LET i == IndexOf(ms, Head(deps))
           rest == unmetDependencies(ms, Tail(deps))
       IN IF i = 0 \/ ~ms[i].isCompleted THEN <<Head(deps)>> \o rest ELSE rest

\* the completion route refuses milestone i of ms for unmet dependencies
dependenciesUnmet(ms, i) ==
  ~alreadyCompleted(ms[i]) /\ unmetDependencies(ms, ms[i].dependencies) # <<>>

\* validation loop of the dependencies route: a candidate is kept when it
\* casts to the id of a milestone of the goal and its string differs from
\* the string of the path parameter (which is in lower case)
RECURSIVE validDependencies(_, _, _)
validDependencies(ms, mid, cands) ==
  IF cands = <<>> THEN <<>>
  ELSE LET c == Head(cands)
           rest == validDependencies(ms, mid, Tail(cands))
       IN IF IndexOf(ms, c.id) # 0 /\ ~(c.id = mid /\ ~c.upper)
          THEN <<c.id>> \o rest ELSE rest

\* POST /api/goals
PostGoal(body) ==
  /\ ~goal.exists
  /\ stored = <<>>
  /\ goal' = NewGoal(body)
  /\ ledger' = <<>>
  /\ result' = Response("createGoal", Ghost, "Created")
  /\ UNCHANGED <<nextId, clock, reqs, stored, page>>

\* PUT /api/goals/:id : only descriptive fields are copied from the body
PutGoal ==
  /\ result' = Response("updateGoal", Ghost, IF goal.exists THEN "OK" ELSE "GoalNotFound")
  /\ UNCHANGED <<goal, ledger, nextId, clock, reqs, stored, page>>

\* POST /api/goals/:id/milestones
PostMilestone(deps) ==
  /\ goal.exists => Len(goal.milestones) < MaxMilestones /\ nextId <= MaxIds
  /\ IF ~goal.exists
     THEN /\ result' = Response("addMilestone", Ghost, "GoalNotFound")
          /\ UNCHANGED <<goal, nextId>>
     ELSE /\ goal' = addMilestone(goal, nextId, deps)
          /\ nextId' = nextId + 1
          /\ result' = Response("addMilestone", nextId, "OK")
  /\ UNCHANGED <<ledger, clock, reqs, stored, page>>

\* PUT /api/goals/:id/milestones/:milestoneId ; entryOk: the write of the
\* progress entry succeeds
PutMilestone(mid, entryOk) ==
  LET i == IndexOf(goal.milestones, mid)
      unmet == unmetDependencies(goal.milestones, goal.milestones[i].dependencies)
      done == completeMilestone(goal, mid, clock + 1)
  IN /\ IF ~goal.exists
        THEN /\ result' = Response("completeMilestone", mid, "GoalNotFound")
             /\ UNCHANGED <<goal, ledger, clock>>
        ELSE IF i = 0
        THEN /\ result' = Response("completeMilestone", mid, "NotFound")
             /\ UNCHANGED <<goal, ledger, clock>>
        ELSE IF alreadyCompleted(goal.milestones[i])
        THEN /\ result' = Response("completeMilestone", mid, "AlreadyCompleted")
             /\ UNCHANGED <<goal, ledger, clock>>
        ELSE IF unmet # <<>>
        THEN /\ result' = [Response("completeMilestone", mid, "DependenciesUnmet")
                             EXCEPT !.unmet = unmet]
             /\ UNCHANGED <<goal, ledger, clock>>
        ELSE /\ goal' = done.goal
             /\ clock' = clock + 1
             /\ IF entryOk
                THEN /\ ledger' = addEntry(ledger, mid)
                     /\ result' = Response("completeMilestone", mid, "OK")
                ELSE /\ ledger' = ledger
                     /\ result' = Response("completeMilestone", mid, "Error")
     /\ UNCHANGED <<nextId, reqs, stored, page>>

\* POST /api/goals/:id/breakdown : n milestones are generated and replace
\* the goal's milestones
PostBreakdown(n) ==
  /\ goal.exists => nextId + n - 1 <= MaxIds
  /\ IF ~goal.exists
     THEN /\ result' = Response("breakdown", Ghost, "GoalNotFound")
          /\ UNCHANGED <<goal, nextId>>
     ELSE /\ goal' = [goal EXCEPT !.milestones =
                        [j \in 1..n |-> NewMilestone(nextId + j - 1, j - 1, <<>>)]]
          /\ nextId' = nextId + n
          /\ result' = Response("breakdown", Ghost, "OK")
  /\ UNCHANGED <<ledger, clock, reqs, stored, page>>

\* PUT /api/goals/:id/milestones/:milestoneId/dependencies
PutDependencies(mid, cands) ==
  LET i == IndexOf(goal.milestones, mid)
  IN /\ IF ~goal.exists
        THEN /\ result' = Response("setDependencies", mid, "GoalNotFound")
             /\ UNCHANGED goal
        ELSE IF i = 0
        THEN /\ result' = Response("setDependencies", mid, "NotFound")
             /\ UNCHANGED goal
        ELSE /\ goal' = [goal EXCEPT !.milestones[i].dependencies =
                           validDependencies(goal.milestones, mid, cands)]
             /\ result' = [Response("setDependencies", mid, "OK") EXCEPT !.body = cands]
     /\ UNCHANGED <<ledger, nextId, clock, reqs, stored, page>>

----------------------------------------------------------------------------
(* Client: new-goal page and goal-details page, goals in localStorage.     *)
(* A milestone id "milestone-i" is the number i, and a milestone's title   *)
(* is as unique as its id.                                                  *)

\* number of milestones for a timeline of count weeks
Target(count) == IF count <= 8 THEN count ELSE (count + 1) \div 2

\* generatePhasedMilestones giving no milestone a dependency
generatePhasedMilestonesUnlinked(count) ==
  [i \in 1..Target(count) |->
     [id |-> i, isCompleted |-> FALSE, order |-> i, dependencies |-> <<>>]]

\* generatePhasedMilestones for a timeline in weeks: a linear chain
generatePhasedMilestones(count) ==
  [i \in 1..Target(count) |->
     [id |-> i, isCompleted |-> FALSE, order |-> i,
      dependencies |-> IF i > 1 THEN <<i - 1>> ELSE <<>>]]

\* the goal-details page before it is opened
ClosedPage ==
  [open |-> FALSE, goalId |-> 0, progress |-> 0, completedMilestones |-> 0,
   milestoneList |-> <<>>]

\* createGoal of the new-goal page
CreateGoal(count) ==
  /\ ~goal.exists
  /\ ~page.open
  /\ Len(stored) < MaxGoals
  /\ stored' = Append(stored, [id |-> Len(stored) + 1, progress |-> 0, status |-> "active",
                               milestones |-> generatePhasedMilestones(count)])
  /\ result' = Response("newGoal", Ghost, "OK")
  /\ UNCHANGED <<goal, ledger, nextId, clock, reqs, page>>

\* the effect that loads the goal-details page of goal gid from localStorage
OpenPage(gid) ==
  /\ ~page.open
  /\ gid \in DOMAIN stored
  /\ page' = [open |-> TRUE, goalId |-> stored[gid].id, progress |-> stored[gid].progress,
              completedMilestones |-> CompletedCount(stored[gid].milestones),
              milestoneList |-> stored[gid].milestones]
  /\ result' = Response("openPage", Ghost, "OK")
  /\ UNCHANGED <<goal, ledger, nextId, clock, reqs, stored>>

\* persistMilestones: the list and the recomputed progress are written to the
\* goal of the page, every other stored goal is written back as it was
persistMilestones(st, goalId, updatedList) ==
  [g \in DOMAIN st |->
     IF st[g].id # goalId THEN st[g]
     ELSE [st[g] EXCEPT !.milestones = updatedList,
                        !.progress = IF Len(updatedList) > 0
                                     THEN RoundPercent(CompletedCount(updatedList), Len(updatedList))
                                     ELSE st[g].progress]]

\* isMilestoneBlocked without its first line
isMilestoneBlockedNoShortcut(milestone, milestoneList) ==
  \E k \in DOMAIN milestone.dependencies :
    LET j == IndexOf(milestoneList, milestone.dependencies[k])
    IN j # 0 /\ ~milestoneList[j].isCompleted

\* isMilestoneBlocked
isMilestoneBlocked(milestone, milestoneList) ==
  IF milestone.isCompleted THEN FALSE
  ELSE \E k \in DOMAIN milestone.dependencies :
         LET j == IndexOf(milestoneList, milestone.dependencies[k])
         IN j # 0 /\ ~milestoneList[j].isCompleted

\* toggleMilestone(index)
ToggleMilestone(index) ==
  LET milestone == page.milestoneList[index]
      updated == [page.milestoneList EXCEPT ![index].isCompleted = ~milestone.isCompleted]
  IN /\ page.open
     /\ index \in DOMAIN page.milestoneList
     /\ IF ~milestone.isCompleted /\ isMilestoneBlocked(milestone, page.milestoneList)
        THEN /\ result' = Response("toggleMilestone", milestone.id, "Blocked")
             /\ UNCHANGED <<stored, page>>
        ELSE /\ page' = [page EXCEPT !.milestoneList = updated,
                           !.completedMilestones = CompletedCount(updated),
                           !.progress = RoundPercent(CompletedCount(updated), Len(updated))]
             /\ stored' = persistMilestones(stored, page.goalId, updated)
             /\ result' = [Response("toggleMilestone", milestone.id, "OK")
                             EXCEPT !.posted = ~milestone.isCompleted]
     /\ UNCHANGED <<goal, ledger, nextId, clock, reqs>>

\* addDependency(milestoneId, dependencyId)
addDependency(milestoneList, milestoneId, dependencyId) ==
  [k \in DOMAIN milestoneList |->
     IF milestoneList[k].id = milestoneId
     THEN [milestoneList[k] EXCEPT !.dependencies = Append(@, dependencyId)]
     ELSE milestoneList[k]]

\* the Add Dep button of milestone index; title is what the user types into
\* the prompt: the title of milestone number title, or of none when there
\* is no such milestone
AddDep(index, title) ==
  LET m == page.milestoneList[index]
      availableDeps == {k \in DOMAIN page.milestoneList :
                          /\ page.milestoneList[k].id # m.id
                          /\ \A d \in DOMAIN m.dependencies :
                               m.dependencies[d] # page.milestoneList[k].id}
      updated == addDependency(page.milestoneList, m.id, page.milestoneList[title].id)
  IN /\ page.open
     /\ index \in DOMAIN page.milestoneList
     /\ Len(m.dependencies) < MaxDeps
     /\ IF availableDeps = {}
        THEN /\ result' = Response("addDependency", m.id, "NoneAvailable")
             /\ UNCHANGED <<stored, page>>
        ELSE IF title \notin DOMAIN page.milestoneList
        THEN /\ result' = Response("addDependency", m.id, "NoSuchTitle")
             /\ UNCHANGED <<stored, page>>
        ELSE /\ page' = [page EXCEPT !.milestoneList = updated]
             /\ stored' = persistMilestones(stored, page.goalId, updated)
             /\ result' = Response("addDependency", m.id, "OK")
     /\ UNCHANGED <<goal, ledger, nextId, clock, reqs>>

----------------------------------------------------------------------------

Init ==
  /\ goal = NoGoal
  /\ ledger = <<>>
  /\ nextId = 1
  /\ clock = 0
  /\ result = NoResponse
  /\ reqs = <<>>
  /\ stored = <<>>
  /\ page = ClosedPage

Next ==
  \/ \E body \in GoalBodies : PostGoal(body)
  \/ PutGoal
  \/ \E d \in {<<>>} \cup {<<x>> : x \in RequestIds(goal)} : PostMilestone(d)
  \/ \E mid \in RequestIds(goal), entryOk \in BOOLEAN : PutMilestone(mid, entryOk)
  \/ \E n \in 1..MaxMilestones : PostBreakdown(n)
  \/ \E mid \in RequestIds(goal), cands \in CandidateLists(goal) : PutDependencies(mid, cands)
  \/ \E count \in 1..MaxMilestones : CreateGoal(count)
  \/ \E gid \in 1..MaxGoals : OpenPage(gid)
  \/ \E index \in 1..MaxMilestones : ToggleMilestone(index)
  \/ \E index \in 1..MaxMilestones, title \in 1..(MaxMilestones + 1) : AddDep(index, title)

Spec == Init /\ [][Next]_vars

----------------------------------------------------------------------------
(* Interleaved completion requests.  The handler of the completion route   *)
(* awaits the load of the goal, the save of the goal and the write of the  *)
(* progress entry; other requests are served in between.  The goal is one  *)
(* that exists already, and only completion requests are sent.             *)

\* a goal with n milestones, none completed; chained: each depends on the
\* one before it
GoalOf(n, chained) ==
  [NewGoal([status |-> "planning", progress |-> 0]) EXCEPT !.milestones =
     [j \in 1..n |-> NewMilestone(j, j - 1, IF chained /\ j > 1 THEN <<j - 1>> ELSE <<>>)]]

\* Mongoose save(): only the paths the handler changed on its copy of the
\* document are written to the stored document
SaveDelta(db, loaded, doc, i) ==
  [db EXCEPT
     !.milestones[i].isCompleted = doc.milestones[i].isCompleted,
     !.milestones[i].completedAt = doc.milestones[i].completedAt,
     !.completedMilestones = IF doc.completedMilestones # loaded.completedMilestones
                             THEN doc.completedMilestones ELSE @,
     !.progress = IF doc.progress # loaded.progress THEN doc.progress ELSE @,
     !.status = IF doc.status # loaded.status THEN doc.status ELSE @,
     !.completedAt = IF doc.completedAt # loaded.completedAt THEN doc.completedAt ELSE @]

\* s without its r-th element
RemoveAt(s, r) == SubSeq(s, 1, r - 1) \o SubSeq(s, r + 1, Len(s))

\* the completion route up to its first write: the goal is loaded, the
\* checks run on the loaded copy, the copy is changed and its save is issued
ReqLoad(mid) ==
  LET i == IndexOf(goal.milestones, mid)
      unmet == unmetDependencies(goal.milestones, goal.milestones[i].dependencies)
  IN /\ Len(reqs) < MaxRequests
     /\ IF i = 0
        THEN /\ result' = Response("completeMilestone", mid, "NotFound")
             /\ UNCHANGED <<reqs, clock>>
        ELSE IF alreadyCompleted(goal.milestones[i])
        THEN /\ result' = Response("completeMilestone", mid, "AlreadyCompleted")
             /\ UNCHANGED <<reqs, clock>>
        ELSE IF unmet # <<>>
        THEN /\ result' = [Response("completeMilestone", mid, "DependenciesUnmet")
                             EXCEPT !.unmet = unmet]
             /\ UNCHANGED <<reqs, clock>>
        ELSE /\ reqs' = Append(reqs, [mid |-> mid, index |-> i, loaded |-> goal, saved |-> FALSE,
                                      doc |-> completeMilestone(goal, mid, clock + 1).goal])
             /\ clock' = clock + 1
             /\ result' = result
     /\ UNCHANGED <<goal, ledger, nextId, stored, page>>

\* the save of request r reaches the database
ReqSave(r) ==
  /\ r \in DOMAIN reqs
  /\ ~reqs[r].saved
  /\ goal' = SaveDelta(goal, reqs[r].loaded, reqs[r].doc, reqs[r].index)
  /\ reqs' = [reqs EXCEPT ![r].saved = TRUE]
  /\ UNCHANGED <<ledger, nextId, clock, result, stored, page>>

\* request r writes its progress entry and answers
ReqEntry(r, entryOk) ==
  /\ r \in DOMAIN reqs
  /\ reqs[r].saved
  /\ reqs' = RemoveAt(reqs, r)
  /\ IF entryOk
     THEN /\ ledger' = addEntry(ledger, reqs[r].mid)
          /\ result' = Response("completeMilestone", reqs[r].mid, "OK")
     ELSE /\ ledger' = ledger
          /\ result' = Response("completeMilestone", reqs[r].mid, "Error")
  /\ UNCHANGED <<goal, nextId, clock, stored, page>>

InitConc ==
  /\ goal \in {GoalOf(n, chained) : n \in 1..MaxMilestones, chained \in BOOLEAN}
  /\ ledger = <<>>
  /\ nextId = Len(goal.milestones) + 1
  /\ clock = 0
  /\ result = NoResponse
  /\ reqs = <<>>
  /\ stored = <<>>
  /\ page = ClosedPage

NextConc ==
  \/ \E mid \in RequestIds(goal) : ReqLoad(mid)
  \/ \E r \in 1..MaxRequests : ReqSave(r)
  \/ \E r \in 1..MaxRequests, entryOk \in BOOLEAN : ReqEntry(r, entryOk)

SpecConc == InitConc /\ [][NextConc]_vars

\* the completion route accepts a request for milestone mid: there is room
\* for one more request in flight, and the goal holds the milestone, not
\* completed and with no unmet dependency
LoadPossible(mid) ==
  LET i == IndexOf(goal.milestones, mid)
  IN /\ Len(reqs) < MaxRequests
     /\ i # 0
     /\ ~alreadyCompleted(goal.milestones[i])
     /\ unmetDependencies(goal.milestones, goal.milestones[i].dependencies) = <<>>

\* a completion request for milestone mid keeps being sent: it is accepted
\* again and again unless from some moment on none can be accepted
FairLoad(mid) == <>[](~LoadPossible(mid)) \/ []<><<ReqLoad(mid)>>_vars

\* the interleaved requests under fair scheduling: completion requests keep
\* being sent, and a request that is in flight reaches its save and its answer
FairConc ==
  /\ \A mid \in 1..FairMilestones : FairLoad(mid)
  /\ \A r \in 1..MaxRequests : WF_vars(ReqSave(r))
  /\ \A r \in 1..MaxRequests : WF_vars(\E entryOk \in BOOLEAN : ReqEntry(r, entryOk))

\* the goals whose requests are scheduled fairly
InitFair ==
  /\ InitConc
  /\ Len(goal.milestones) <= FairMilestones

SpecConcFair ==
  /\ InitFair
  /\ [][NextConc]_vars
  /\ FairConc

----------------------------------------------------------------------------
(* updateProgress on its own: a goal with total milestones of which k are  *)
(* completed, in any status, has its progress recomputed.                  *)

GoalWith(total, k, status) ==
  [NewGoal([status |-> status, progress |-> 0]) EXCEPT !.milestones =
     [j \in 1..total |->
        [NewMilestone(j, j - 1, <<>>) EXCEPT !.isCompleted = (j <= k),
                                             !.completedAt = IF j <= k THEN 1 ELSE NoDate]]]

\* goal.updateProgress() and its save(); the answer tells a first call from
\* a repeated one
UpdateProgress ==
  /\ goal' = updateProgress(goal, clock + 1)
  /\ clock' = IF goal'.completedAt # goal.completedAt THEN clock + 1 ELSE clock
  /\ result' = Response("updateProgress", Ghost,
                        IF result.op = "updateProgress" THEN "Again" ELSE "OK")
  /\ UNCHANGED <<ledger, nextId, reqs, stored, page>>

InitUP ==
  /\ goal \in UNION {{GoalWith(total, k, status) : k \in 0..total, status \in Statuses} :
                       total \in 0..MaxTotal}
  /\ ledger = <<>>
  /\ nextId = Len(goal.milestones) + 1
  /\ clock = 1
  /\ result = NoResponse
  /\ reqs = <<>>
  /\ stored = <<>>
  /\ page = ClosedPage

NextUP == UpdateProgress

SpecUP == InitUP /\ [][NextUP]_vars

----------------------------------------------------------------------------
(* The goal-details page over any content of localStorage: the page reads  *)
(* whatever the "goals" entry holds.                                       *)

\* milestone lists of a stored goal; a dependency is the id of a milestone
\* of the list, of the milestone itself, or of none
StoredLists ==
  UNION {[1..n -> [isCompleted : BOOLEAN,
                   dependencies : {<<>>} \cup {<<d>> : d \in (1..n) \cup {Ghost}}]] :
           n \in 1..MaxStored}

StoredGoal(list) ==
  LET milestones == [j \in DOMAIN list |->
                       [id |-> j, isCompleted |-> list[j].isCompleted, order |-> j,
                        dependencies |-> list[j].dependencies]]
  IN [id |-> 1, status |-> "active", milestones |-> milestones,
      progress |-> RoundPercent(CompletedCount(milestones), Len(milestones))]

InitStorage ==
  /\ goal = NoGoal
  /\ ledger = <<>>
  /\ nextId = 1
  /\ clock = 0
  /\ result = NoResponse
  /\ reqs = <<>>
  /\ stored \in {<<StoredGoal(list)>> : list \in StoredLists}
  /\ page = ClosedPage

NextStorage ==
  \/ \E gid \in 1..MaxGoals : OpenPage(gid)
  \/ \E index \in 1..MaxStored : ToggleMilestone(index)
  \/ \E index \in 1..MaxStored, title \in 1..(MaxStored + 1) : AddDep(index, title)

SpecStorage == InitStorage /\ [][NextStorage]_vars

----------------------------------------------------------------------------
(* Large goals: a goal of hundreds of milestones on the server, a goal of  *)
(* a long timeline in the client.  Most of the milestones are completed or *)
(* most are not, and the requests name a few of them.                      *)

\* the milestone counts of the server's large goals
LargeTotals == {LargeTotal \div 2, LargeTotal \div 2 + 1, LargeTotal}

\* the ObjectId of milestone j of a large goal
LargeId(j) == Ghost + j

\* a goal of total milestones as the last completion left it: the first
\* open milestones are incomplete, the others are completed; mutual: the
\* first two milestones depend on each other
LargeGoal(total, open, mutual, status) ==
  updateProgress(
    [NewGoal([status |-> status, progress |-> 0]) EXCEPT !.milestones =
       [j \in 1..total |->
          [NewMilestone(LargeId(j), j - 1,
                        IF mutual /\ j <= 2 THEN <<LargeId(3 - j)>> ELSE <<>>)
             EXCEPT !.isCompleted = (j > open),
                    !.completedAt = IF j > open THEN 1 ELSE NoDate]]], 1)

\* the numbers of incomplete milestones the large goals start with
Opens(total) == (0..MaxOpen) \cup {total}

\* the ids the requests to a large goal name
LargeRequestIds(g) ==
  {LargeId(j) : j \in 1..MaxOpen} \cup {Ghost}

\* the goal the new-goal page stores for a timeline of ClientWeeks weeks,
\* after its first done milestones were completed on the goal-details page
ClientLargeGoal(done) ==
  LET list == [j \in 1..Target(ClientWeeks) |->
                 [generatePhasedMilestones(ClientWeeks)[j] EXCEPT !.isCompleted = (j <= done)]]
  IN [id |-> 1, status |-> "active", milestones |-> list,
      progress |-> RoundPercent(done, Len(list))]

\* the checkboxes the user clicks on the page of the large goal
ClientIndexes == (ClientDone - 1)..(ClientDone + 2)

InitLarge ==
  /\ \/ /\ goal \in {LargeGoal(c[1], c[2], c[3], c[4]) :
                       c \in {d \in LargeTotals \X (0..LargeTotal) \X BOOLEAN \X Statuses :
                                d[2] \in Opens(d[1]) /\ (d[3] => d[2] >= 2)}}
        /\ stored = <<>>
     \/ /\ goal = NoGoal
        /\ stored = <<ClientLargeGoal(ClientDone)>>
  /\ ledger = <<>>
  /\ nextId = LargeId(Len(goal.milestones)) + 1
  /\ clock = 1
  /\ result = NoResponse
  /\ reqs = <<>>
  /\ page = ClosedPage

NextLarge ==
  \/ \E mid \in LargeRequestIds(goal) : PutMilestone(mid, TRUE)
  \/ \E gid \in 1..MaxGoals : OpenPage(gid)
  \/ \E index \in ClientIndexes : ToggleMilestone(index)

SpecLarge == InitLarge /\ [][NextLarge]_vars

----------------------------------------------------------------------------
(* Properties *)

\* the milestones of ms that milestone i depends on and that are not completed
IncompleteDependencies(ms, i) ==
  {j \in DOMAIN ms : ~ms[j].isCompleted
                     /\ \E k \in DOMAIN ms[i].dependencies : ms[i].dependencies[k] = ms[j].id}

\* milestone i of ms holds a dependency id that names no milestone of ms
HasDanglingDependency(ms, i) ==
  \E k \in DOMAIN ms[i].dependencies : IndexOf(ms, ms[i].dependencies[k]) = 0

\* the step is a request to the completion route for milestone i of the goal
CompletionRequest(i) ==
  /\ goal.exists
  /\ i \in DOMAIN goal.milestones
  /\ result'.op = "completeMilestone"
  /\ result'.mid = goal.milestones[i].id

\* the step is a click on the checkbox of milestone i of the page
ToggleRequest(i) ==
  /\ page.open
  /\ i \in DOMAIN page.milestoneList
  /\ result'.op = "toggleMilestone"
  /\ result'.mid = page.milestoneList[i].id

\* C1 as stated: completing a milestone that has at least one incomplete
\* dependency always answers DependenciesUnmet (the blocking alert in the
\* client) and changes neither the milestone nor the goal's progress or
\* status, on the completion route and in the client's toggleMilestone.
C1_AnyMilestoneRefused ==
  [][
      /\ \A i \in 1..MaxMilestones :
          CompletionRequest(i) /\ IncompleteDependencies(goal.milestones, i) # {}
            => result'.code = "DependenciesUnmet" /\ goal' = goal
      /\ \A i \in 1..MaxMilestones :
          ToggleRequest(i) /\ IncompleteDependencies(page.milestoneList, i) # {}
            => result'.code = "Blocked" /\ page' = page /\ stored' = stored
    ]_vars

\* C1 amended: completing an incomplete milestone that has at least one
\* incomplete dependency is always refused, with DependenciesUnmet by the
\* completion route and with the blocking alert by the client's
\* toggleMilestone, and nothing is changed: not the milestone, not the
\* goal's progress or status, not the ledger.  A completed milestone with an
\* incomplete dependency is answered AlreadyCompleted by the route, which
\* changes nothing either, and is set back to incomplete by the client.
C1_IncompleteMilestoneRefused ==
  [][
      /\ \A i \in 1..MaxMilestones :
          CompletionRequest(i) /\ IncompleteDependencies(goal.milestones, i) # {}
            => /\ result'.code = IF goal.milestones[i].isCompleted
                                 THEN "AlreadyCompleted" ELSE "DependenciesUnmet"
               /\ goal' = goal
               /\ ledger' = ledger
      /\ \A i \in 1..MaxMilestones :
          ToggleRequest(i) /\ IncompleteDependencies(page.milestoneList, i) # {}
            => IF page.milestoneList[i].isCompleted
               THEN ~page'.milestoneList[i].isCompleted
               ELSE result'.code = "Blocked" /\ page' = page /\ stored' = stored
    ]_vars

\* the completion route has just refused a milestone because a milestone it
\* depends on is incomplete
C1_Witness ==
  /\ result.op = "completeMilestone"
  /\ result.code = "DependenciesUnmet"
  /\ IncompleteDependencies(goal.milestones, IndexOf(goal.milestones, result.mid)) # {}

\* 100 * k / t rounded half-up to an integer, in exact arithmetic
RoundHalfUp(k, t) == (200 * k + t) \div (2 * t)

\* the progress the progress formula gives a list of milestones
ExpectedProgress(ms) ==
  IF Len(ms) > 0 THEN RoundHalfUp(CompletedCount(ms), Len(ms)) ELSE 0

\* C2: in every reachable state the stored progress of a goal equals
\* round(100 * completed / total) when it has milestones and 0 when it has
\* none, for the goal in MongoDB and for the goals in localStorage.
C2_ProgressMatchesMilestones ==
  /\ goal.exists => goal.progress = ExpectedProgress(goal.milestones)
  /\ \A g \in DOMAIN stored : stored[g].progress = ExpectedProgress(stored[g].milestones)

\* C3: updateProgress leaves as progress 100 * k / total rounded half-up for
\* every total >= 1 and 0 <= k <= total, and 0 for total = 0; the progress is
\* an integer in 0..100.
C3_RoundsHalfUp ==
  result.op = "updateProgress"
    => /\ goal.progress = ExpectedProgress(goal.milestones)
       /\ goal.progress \in 0..100

\* every milestone of ms is completed, and there is one
AllCompleted(ms) == Len(ms) > 0 /\ \A j \in DOMAIN ms : ms[j].isCompleted

\* C4: the status of a goal becomes completed exactly in the completeMilestone
\* call that completes its last incomplete milestone: a step that completes
\* the last one leaves the status completed, the status turns completed in no
\* other step, and it is never completed while a milestone is incomplete.
C4_CompletedWithLastMilestone ==
  [][
      /\ goal.exists /\ goal'.status = "completed" /\ goal.status # "completed"
           => result'.op = "completeMilestone" /\ AllCompleted(goal'.milestones)
      /\ goal.exists /\ result'.op = "completeMilestone" /\ result'.code = "OK"
           /\ AllCompleted(goal'.milestones)
           => goal'.status = "completed"
      /\ goal'.exists /\ goal'.status = "completed" => AllCompleted(goal'.milestones)
    ]_vars

\* C5: when the concurrent completion requests have all finished, the
\* milestones they completed are completed and the stored progress and status
\* are what a recomputation over the stored milestones yields.
C5_NoLostUpdate ==
  reqs = <<>>
    => /\ goal.progress = updateProgress(goal, clock).progress
       /\ goal.status = updateProgress(goal, clock).status
       /\ \A e \in DOMAIN ledger :
            goal.milestones[IndexOf(goal.milestones, ledger[e].milestoneId)].isCompleted

\* milestone i of ms holds a dependency that is not a completed milestone
HasUncompletedDependency(ms, i) ==
  IncompleteDependencies(ms, i) # {} \/ HasDanglingDependency(ms, i)

\* C6 as stated: a milestone with a non-empty dependency list is blocked if
\* and only if at least one of its dependencies is incomplete, and a
\* completed milestone is never blocked, in the client's blocking check and
\* at the server's completion gate.
C6_BlockedIffDependencyIncomplete ==
  /\ \A i \in DOMAIN page.milestoneList :
       LET m == page.milestoneList[i]
       IN /\ m.dependencies # <<>>
               => (isMilestoneBlocked(m, page.milestoneList)
                     <=> HasUncompletedDependency(page.milestoneList, i))
          /\ m.isCompleted => ~isMilestoneBlocked(m, page.milestoneList)
  /\ \A i \in DOMAIN goal.milestones :
       LET m == goal.milestones[i]
       IN /\ m.dependencies # <<>>
               => (dependenciesUnmet(goal.milestones, i)
                     <=> HasUncompletedDependency(goal.milestones, i))
          /\ m.isCompleted => ~dependenciesUnmet(goal.milestones, i)

\* C6 amended: an incomplete milestone is blocked if and only if at least one
\* of its dependencies is an incomplete milestone of the goal; the server's
\* completion gate blocks it as well when one of its dependency ids names no
\* milestone of the goal, which the client's check ignores.  A completed
\* milestone is never blocked, whatever the state of its dependencies.
C6_IncompleteBlockedIffDependencyIncomplete ==
  /\ \A i \in DOMAIN page.milestoneList :
       LET m == page.milestoneList[i]
       IN IF m.isCompleted
          THEN ~isMilestoneBlocked(m, page.milestoneList)
          ELSE isMilestoneBlocked(m, page.milestoneList)
                 <=> IncompleteDependencies(page.milestoneList, i) # {}
  /\ \A i \in DOMAIN goal.milestones :
       LET m == goal.milestones[i]
       IN IF m.isCompleted
          THEN ~dependenciesUnmet(goal.milestones, i)
          ELSE dependenciesUnmet(goal.milestones, i)
                 <=> HasUncompletedDependency(goal.milestones, i)

\* the page shows a completed milestone one of whose dependencies is incomplete
C6_Witness ==
  /\ page.open
  /\ \E i \in DOMAIN page.milestoneList :
       /\ page.milestoneList[i].isCompleted
       /\ IncompleteDependencies(page.milestoneList, i) # {}

C8_CompletedIffFullProgress ==
  /\ goal.exists
       => (goal.status = "completed" <=> goal.progress = 100 /\ Len(goal.milestones) > 0)
  /\ \A g \in DOMAIN stored :
       stored[g].status = "completed"
         <=> stored[g].progress = 100 /\ Len(stored[g].milestones) > 0

\* C9: a completion request for a milestone that is already completed is
\* answered AlreadyCompleted and changes nothing: the milestone's isCompleted
\* and completedAt, the goal's progress and status and the ledger stay as
\* they were.
C9_AlreadyCompletedRejected ==
  [][\A i \in 1..MaxMilestones :
       CompletionRequest(i) /\ goal.milestones[i].isCompleted
         => result'.code = "AlreadyCompleted" /\ goal' = goal /\ ledger' = ledger]_vars

\* the completion route has just refused a milestone that is completed
C9_Witness ==
  /\ result.op = "completeMilestone"
  /\ result.code = "AlreadyCompleted"
  /\ goal.milestones[IndexOf(goal.milestones, result.mid)].isCompleted
  /\ ledger # <<>>

\* the candidates that differ from milestone mid and name a milestone of ms
RECURSIVE FilteredCandidates(_, _, _)
FilteredCandidates(ms, mid, cands) ==
  IF cands = <<>> THEN <<>>
  ELSE LET rest == FilteredCandidates(ms, mid, Tail(cands))
       IN IF Head(cands).id # mid /\ IndexOf(ms, Head(cands).id) # 0
          THEN <<Head(cands).id>> \o rest ELSE rest

\* C10: an accepted dependencies request stores as the milestone's
\* dependencies exactly the candidates that differ from the milestone's own
\* id and name a milestone of the goal, and leaves every other milestone as
\* it was.
C10_StoresFilteredCandidates ==
  [][\A i \in 1..MaxMilestones :
       /\ goal.exists
       /\ i \in DOMAIN goal.milestones
       /\ result'.op = "setDependencies"
       /\ result'.code = "OK"
       /\ result'.mid = goal.milestones[i].id
       => /\ goal'.milestones[i].dependencies
               = FilteredCandidates(goal.milestones, result'.mid, result'.body)
          /\ \A j \in DOMAIN goal.milestones : j # i => goal'.milestones[j] = goal.milestones[j]]_vars

\* the candidate names milestone mid itself or no milestone of ms
Inadmissible(ms, mid, c) == c.id = mid \/ IndexOf(ms, c.id) = 0

\* C11: a dependencies request whose candidate list holds an inadmissible id
\* (the milestone's own id, or an id unknown to the goal) is rejected with a
\* ValidationError and leaves the milestone's dependencies as they were.
C11_InadmissibleRejected ==
  [][\A i \in 1..MaxMilestones :
       /\ goal.exists
       /\ i \in DOMAIN goal.milestones
       /\ result'.op = "setDependencies"
       /\ result'.mid = goal.milestones[i].id
       /\ \E k \in DOMAIN result'.body :
            Inadmissible(goal.milestones, result'.mid, result'.body[k])
       => /\ result'.code = "ValidationError"
          /\ goal'.milestones[i].dependencies = goal.milestones[i].dependencies]_vars

\* milestone i of ms lists the id of milestone j of ms as a dependency
DependsOn(ms, i, j) ==
  \E k \in DOMAIN ms[i].dependencies : ms[i].dependencies[k] = ms[j].id

\* milestone j is reached from milestone i along at most n dependencies
RECURSIVE ReachesIn(_, _, _, _)
ReachesIn(ms, i, j, n) ==
  /\ n > 0
  /\ \/ DependsOn(ms, i, j)
     \/ \E m \in DOMAIN ms : DependsOn(ms, i, m) /\ ReachesIn(ms, m, j, n - 1)

\* no milestone of ms depends on itself, directly or through others
Acyclic(ms) == \A i \in DOMAIN ms : ~ReachesIn(ms, i, i, Len(ms))

\* C12: in every reachable state the dependency relation over the milestones
\* of a goal is acyclic, for the goal in MongoDB and the goals in localStorage.
C12_DependenciesAcyclic ==
  /\ Acyclic(goal.milestones)
  /\ \A g \in DOMAIN stored : Acyclic(stored[g].milestones)

\* C13: the progress of a goal never decreases across a request to the
\* completion route, whether the request succeeds or is rejected.
C13_ProgressNonDecreasing ==
  [][goal.exists /\ result'.op = "completeMilestone" => goal'.progress >= goal.progress]_vars

\* C14: recomputing the progress is idempotent: once updateProgress has been
\* applied, applying it again with no milestone change in between leaves the
\* goal (progress, completedMilestones, status, completion time) as it is.
C14_UpdateProgressIdempotent ==
  [][result.op = "updateProgress" => goal' = goal]_vars

\* updateProgress has been applied a second time to a goal that the first
\* application completed and stamped
C14_Witness ==
  /\ result.op = "updateProgress"
  /\ result.code = "Again"
  /\ goal.status = "completed"
  /\ goal.completedAt # NoDate

\* C15: once the status of a goal is completed no operation changes it: not
\* a completion, a recomputation, a dependencies edit or a new milestone on
\* the server, and no toggle or dependency edit of the client, which leaves
\* the status of every stored goal as it finds it.
C15_CompletedStatusKept ==
  [][
      /\ goal.exists /\ goal.status = "completed" => goal'.status = "completed"
      /\ \A g \in DOMAIN stored :
           g \in DOMAIN stored' /\ stored'[g].status = stored[g].status
    ]_vars

\* a completion has recomputed a progress below 100 for a goal whose status
\* is completed
C15_Witness ==
  /\ goal.status = "completed"
  /\ goal.progress < 100
  /\ result.op = "completeMilestone"
  /\ result.code = "OK"

\* the step appends to the ledger exactly one entry, of type milestone and
\* value 1, for milestone mid
OneEntryAppended(mid) ==
  /\ Len(ledger') = Len(ledger) + 1
  /\ SubSeq(ledger', 1, Len(ledger)) = ledger
  /\ ledger'[Len(ledger')].type = "milestone"
  /\ ledger'[Len(ledger')].value = 1
  /\ ledger'[Len(ledger')].milestoneId = mid

\* the step takes milestone i of the goal from incomplete to completed
NewlyCompleted(i) ==
  /\ i \in DOMAIN goal.milestones
  /\ i \in DOMAIN goal'.milestones
  /\ ~goal.milestones[i].isCompleted
  /\ goal'.milestones[i].isCompleted

\* the client's part of C16: a click submits one progress entry when it
\* takes the milestone from incomplete to completed, and none otherwise
ToggleSubmitsOnCompletion ==
  \A i \in 1..MaxMilestones :
    ToggleRequest(i)
      => (result'.posted <=> /\ ~page.milestoneList[i].isCompleted
                             /\ page'.milestoneList[i].isCompleted)

C17_LedgerFailureHarmless ==
  [][\A i \in 1..MaxMilestones :
       CompletionRequest(i) /\ NewlyCompleted(i) /\ ledger' = ledger
         => /\ result'.code = "OK"
            /\ goal' = completeMilestone(goal, result'.mid, clock').goal]_vars

\* the stored progress of g is the value derived from g's milestones
ProgressDerived(g) == g.progress = ExpectedProgress(g.milestones)

\* C18: a caller never sets the progress: after goal creation, goal update
\* or addMilestone on a goal whose progress was the derived value (or on no
\* goal, for creation), the stored progress is the value derived from the
\* goal's milestones, whatever the request body holds.
C18_ProgressNeverSetByCaller ==
  [][(/\ result'.op \in {"createGoal", "updateGoal", "addMilestone"}
      /\ goal'.exists
      /\ goal.exists => ProgressDerived(goal))
       => ProgressDerived(goal')]_vars

\* every milestone of before that is completed and still present in after
\* is still completed in after
CompletedStay(before, after) ==
  \A i \in DOMAIN before : \A j \in DOMAIN after :
    before[i].id = after[j].id /\ before[i].isCompleted => after[j].isCompleted

\* C19: a completed milestone is terminal: no step of a server route, of
\* the client's toggleMilestone or of breakdown regeneration returns a
\* completed milestone, of the server's goal or of the goal the page shows,
\* to incomplete.
C19_CompletedTerminal ==
  [][/\ goal.exists /\ goal'.exists
          => CompletedStay(goal.milestones, goal'.milestones)
     /\ page.open /\ page'.open
          => CompletedStay(page.milestoneList, page'.milestoneList)
     /\ \A g \in DOMAIN stored :
          CompletedStay(stored[g].milestones, stored'[g].milestones)]_vars

\* every dependency id of every milestone of ms names another milestone of ms
DependenciesWellFormed(ms) ==
  \A i \in DOMAIN ms : \A k \in DOMAIN ms[i].dependencies :
    /\ ms[i].dependencies[k] # ms[i].id
    /\ IndexOf(ms, ms[i].dependencies[k]) # 0

\* C20: in every reachable state every dependency id of every milestone
\* names a different milestone of the same goal: no self-reference and no id
\* absent from the goal, on the server and in the client's storage.
C20_DependenciesWellFormed ==
  /\ goal.exists => DependenciesWellFormed(goal.milestones)
  /\ \A g \in DOMAIN stored : DependenciesWellFormed(stored[g].milestones)

\* milestones a and b of ms are incomplete and each depends on the other
MutuallyDependent(ms, a, b) ==
  /\ a \in DOMAIN ms /\ b \in DOMAIN ms /\ a # b
  /\ ~ms[a].isCompleted /\ ~ms[b].isCompleted
  /\ \E k \in DOMAIN ms[a].dependencies : ms[a].dependencies[k] = ms[b].id
  /\ \E k \in DOMAIN ms[b].dependencies : ms[b].dependencies[k] = ms[a].id

\* C21: while two incomplete milestones depend on each other, no completion
\* request completes either of them, on the completion route and in the
\* client's toggleMilestone, and no completion request brings the goal to
\* the status completed.
C21_MutualDependencyDeadlocks ==
  [][
      /\ \A a \in 1..MaxOpen, b \in 1..MaxOpen :
           goal.exists /\ MutuallyDependent(goal.milestones, a, b)
           /\ result'.op = "completeMilestone"
             => /\ ~goal'.milestones[a].isCompleted
                /\ ~goal'.milestones[b].isCompleted
                /\ goal'.status = "completed" => goal.status = "completed"
      /\ \A a \in 1..MaxOpen, b \in 1..MaxOpen :
           page.open /\ MutuallyDependent(page.milestoneList, a, b)
           /\ result'.op = "toggleMilestone"
             => /\ ~page'.milestoneList[a].isCompleted
                /\ ~page'.milestoneList[b].isCompleted
    ]_vars

\* m.completedAt as JavaScript reads it: undefined, like a Date that was
\* never set, when the object has no such property
CompletedAtOf(m) == IF "completedAt" \in DOMAIN m THEN m.completedAt ELSE NoDate

\* from the list before to the list after, the completion time of every
\* milestone in both is stamped when the milestone turns completed and is
\* left as it was otherwise
StampedOnCompletion(before, after) ==
  \A i \in DOMAIN before : \A j \in DOMAIN after :
    before[i].id = after[j].id
      => IF ~before[i].isCompleted /\ after[j].isCompleted
         THEN CompletedAtOf(after[j]) # NoDate
              /\ CompletedAtOf(after[j]) # CompletedAtOf(before[i])
         ELSE CompletedAtOf(after[j]) = CompletedAtOf(before[i])

\* C22: completedAt of a milestone is set exactly when its isCompleted
\* changes from false to true: every such change stamps it, on the server and
\* in the client, and no other step writes it.
C22_CompletedAtStampedOnce ==
  [][/\ goal.exists /\ goal'.exists
          => StampedOnCompletion(goal.milestones, goal'.milestones)
     /\ page.open /\ page'.open
          => StampedOnCompletion(page.milestoneList, page'.milestoneList)]_vars

\* C23: updateProgress changes the status in two ways only: to completed
\* when the recomputed progress is 100, the goal has a milestone and the
\* status is not completed already; otherwise from planning to active when
\* the recomputed progress is above 0.  In every other case the status is
\* left as it was.
C23_StatusChangesTwoWays ==
  [][result'.op = "updateProgress"
       => goal'.status =
            IF goal'.progress = 100 /\ Len(goal.milestones) > 0 /\ goal.status # "completed"
            THEN "completed"
            ELSE IF goal'.progress > 0 /\ goal.status = "planning"
            THEN "active"
            ELSE goal.status]_vars

\* the progress of a paused goal with some milestones completed and some not
\* has been recomputed and the goal is still paused
C23_Witness ==
  /\ result.op = "updateProgress"
  /\ goal.status = "paused"
  /\ goal.progress > 0 /\ goal.progress < 100
  /\ CompletedCount(goal.milestones) > 0

\* the dependency ids of milestone i of ms that do not name a completed
\* milestone of ms
DirectUnmet(ms, i) ==
  {ms[i].dependencies[k] : k \in {n \in DOMAIN ms[i].dependencies :
       LET j == IndexOf(ms, ms[i].dependencies[n])
       IN j = 0 \/ ~ms[j].isCompleted}}

\* ms is the chain A <- B <- C whose first k milestones are completed
ChainOfThree(ms, k) ==
  /\ Len(ms) = 3
  /\ ms[1].dependencies = <<>>
  /\ ms[2].dependencies = <<ms[1].id>>
  /\ ms[3].dependencies = <<ms[2].id>>
  /\ \A j \in 1..3 : ms[j].isCompleted <=> j <= k

C25_CounterMatchesMilestones ==
  goal.exists
    => /\ goal.completedMilestones = CompletedCount(goal.milestones)
       /\ completionPercentage(goal) = goal.progress
       /\ completionPercentage(goal) \in 0..100

\* C26 as stated: on the server, in every reachable state, every completed
\* milestone has all of its current dependencies completed.
C26_CompletedHaveCompletedDependencies ==
  goal.exists
    => \A i \in DOMAIN goal.milestones :
         goal.milestones[i].isCompleted => ~HasUncompletedDependency(goal.milestones, i)

\* C26 amended: on the server a milestone turns completed only in a
\* completion request for it, and only when every dependency it has at that
\* moment is a completed milestone of the goal; a dependency edit never
\* changes which milestones are completed.  (A later dependency edit may
\* give a completed milestone a dependency that is not completed.)
C26_CompletedOnlyWithDependenciesCompleted ==
  [][
      /\ \A i \in 1..MaxMilestones :
           goal.exists /\ goal'.exists /\ NewlyCompleted(i)
           /\ goal'.milestones[i].id = goal.milestones[i].id
             => /\ result'.op = "completeMilestone"
                /\ result'.mid = goal.milestones[i].id
                /\ ~HasUncompletedDependency(goal.milestones, i)
                /\ goal'.milestones[i].dependencies = goal.milestones[i].dependencies
      /\ result'.op = "setDependencies" /\ goal.exists
           => /\ Len(goal'.milestones) = Len(goal.milestones)
              /\ \A i \in DOMAIN goal.milestones :
                   goal'.milestones[i].isCompleted = goal.milestones[i].isCompleted
    ]_vars

\* a milestone that has a dependency has just been completed, its dependency
\* being completed
C26_Witness ==
  /\ goal.exists
  /\ result.op = "completeMilestone"
  /\ result.code = "OK"
  /\ LET i == IndexOf(goal.milestones, result.mid)
     IN /\ i # 0
        /\ goal.milestones[i].isCompleted
        /\ goal.milestones[i].dependencies # <<>>
        /\ ~HasUncompletedDependency(goal.milestones, i)

\* some incomplete milestone of ms has every dependency completed
SomeCompletable(ms) ==
  \E i \in DOMAIN ms : ~ms[i].isCompleted /\ ~HasUncompletedDependency(ms, i)

\* C27: for a goal whose dependency relation is acyclic and whose dependency
\* ids all name milestones of the goal, while a milestone is incomplete some
\* incomplete milestone can be completed, and with completion requests
\* scheduled fairly and no dependency edits every milestone is eventually
\* completed and the goal reaches progress 100 and status completed.
C27_EventuallyCompleted ==
  /\ [](Acyclic(goal.milestones) /\ ~AllCompleted(goal.milestones)
          => SomeCompletable(goal.milestones))
  /\ <>(/\ AllCompleted(goal.milestones)
        /\ goal.progress = 100
        /\ goal.status = "completed")

\* progress is 100 exactly when every milestone of ms is completed, and
\* above 0 exactly when some milestone of ms is completed
ProgressTellsEnds(progress, ms) ==
  /\ progress = 100 <=> AllCompleted(ms)
  /\ progress > 0 <=> CompletedCount(ms) > 0

\* C28: after updateProgress has recomputed the progress of a goal with at
\* least one milestone (and after the client has persisted a toggled list),
\* the progress is 100 if and only if every milestone is completed and above
\* 0 if and only if at least one is, whatever the number of milestones.
C28_RoundingKeepsEnds ==
  /\ result.op = "completeMilestone" /\ result.code \in {"OK", "Error"} /\ goal.exists
       => ProgressTellsEnds(goal.progress, goal.milestones)
  /\ result.op = "toggleMilestone" /\ result.code = "OK" /\ page.open
       => /\ ProgressTellsEnds(page.progress, page.milestoneList)
          /\ \A g \in DOMAIN stored :
               stored[g].id = page.goalId
                 => ProgressTellsEnds(stored[g].progress, stored[g].milestones)

\* ms is a linear chain: the ids are distinct, the first milestone depends on
\* nothing and every other milestone on the one before it and on nothing else
LinearChain(ms) ==
  /\ \A i \in DOMAIN ms : \A j \in DOMAIN ms : ms[i].id = ms[j].id => i = j
  /\ \A i \in DOMAIN ms :
       ms[i].dependencies = IF i > 1 THEN <<ms[i - 1].id>> ELSE <<>>

\* exactly the first k milestones of ms are completed
PrefixCompleted(ms, k) ==
  /\ k \in 0..Len(ms)
  /\ \A i \in DOMAIN ms : ms[i].isCompleted <=> i <= k

\* the incomplete milestones of the list that the page does not block
Unblocked(ms) ==
  {i \in DOMAIN ms : ~ms[i].isCompleted /\ ~isMilestoneBlocked(ms[i], ms)}

\* C29: the milestones generatePhasedMilestones produces form a linear
\* chain, without a cycle or a dangling id and with none completed; while
\* the goal created from them has only had milestones completed (its first k
\* milestones are completed), at most one incomplete milestone is unblocked,
\* namely milestone k + 1, and a click completes no other milestone.
C29_PhasedMilestonesChain ==
  [][
      /\ result'.op = "newGoal"
           => LET ms == stored'[Len(stored')].milestones
              IN /\ LinearChain(ms)
                 /\ Acyclic(ms)
                 /\ DependenciesWellFormed(ms)
                 /\ PrefixCompleted(ms, 0)
      /\ \A k \in 0..MaxMilestones :
           page.open /\ LinearChain(page.milestoneList)
           /\ PrefixCompleted(page.milestoneList, k)
             => /\ Unblocked(page.milestoneList)
                     = IF k < Len(page.milestoneList) THEN {k + 1} ELSE {}
                /\ \A i \in DOMAIN page.milestoneList :
                     ToggleRequest(i) /\ ~page.milestoneList[i].isCompleted
                     /\ page'.milestoneList[i].isCompleted
                       => i = k + 1 /\ PrefixCompleted(page'.milestoneList, k + 1)
                /\ \A i \in DOMAIN page.milestoneList :
                     ToggleRequest(i) /\ ~page.milestoneList[i].isCompleted /\ i # k + 1
                       => result'.code = "Blocked" /\ page' = page /\ stored' = stored
    ]_vars

\* on the page of a generated goal of three milestones, the second
\* milestone has just been completed after the first
C29_Witness ==
  /\ page.open
  /\ Len(page.milestoneList) = 3
  /\ LinearChain(page.milestoneList)
  /\ PrefixCompleted(page.milestoneList, 2)
  /\ result.op = "toggleMilestone"
  /\ result.code = "OK"
  /\ result.posted
  /\ result.mid = page.milestoneList[2].id

\* C30: a toggleMilestone or addDependency of the goal-details page leaves
\* in localStorage, for the page's goal, the page's list with the progress
\* round(100 * completed / total) of that list, and leaves the record of
\* every other goal as it was.
C30_PersistedProgressMatchesList ==
  [][result'.op \in {"toggleMilestone", "addDependency"} /\ result'.code = "OK"
       => /\ Len(stored') = Len(stored)
          /\ \A g \in DOMAIN stored :
               IF stored[g].id = page.goalId
               THEN /\ stored'[g].milestones = page'.milestoneList
                    /\ stored'[g].progress = ExpectedProgress(stored'[g].milestones)
               ELSE stored'[g] = stored[g]]_vars

====
